---------------------------- MODULE Spec2Model ----------------------------
(***************************************************************************)
(* Multi-source tile compositor and value quantizers of the terracotta     *)
(* kiyomasa / highresnowc handlers.                                        *)
(*                                                                         *)
(*   Spec      : one request served by get_tile_data_from_multi_cogs       *)
(*               (handlers/kiyomasa.py) or by highresnowc                  *)
(*               (handlers/highresnowc.py): key enumeration, metadata      *)
(*               lookup, tile fetch (asynchronous futures in kiyomasa),    *)
(*               merge into the canvas, return or raise.                   *)
(*   SpecQuant : the per-pixel value encodings of every handler, applied   *)
(*               to one canvas pixel drawn from the whole source range.    *)
(*                                                                         *)
(* Strings are sequences of one-character strings, so that str.split(','), *)
(* int() and str() are computed and not assumed.                           *)
(***************************************************************************)
EXTENDS Integers, Sequences, FiniteSets, TLC

(***************************************************************************)
(* Bounds of the model.                                                    *)
(***************************************************************************)
\* longest section_x / section_y list of a request
MaxSections == 2
\* longest resolution list of a request
MaxResLen == 3
\* most key-sets one request enumerates (len(x) * len(y) * len(res))
MaxKeySets == 4
\* unmasked raw values stored in the modelled datasets are 0..MaxRaw
MaxRaw == 1

(***************************************************************************)
(* Program constants.                                                      *)
(***************************************************************************)
UInt8Max == 255
UInt16Max == 65535
Int16Max == 32767
Int16Min == -Int16Max - 1

(***************************************************************************)
(* Strings.                                                                *)
(***************************************************************************)
Comma == ","
DigitChars == <<"0", "1", "2", "3", "4", "5", "6", "7", "8", "9">>

RECURSIVE Split(_)
\* s.split(','): the tokens between the commas, empty tokens kept
Split(s) ==
    IF \A p \in 1..Len(s) : s[p] # Comma
    THEN <<s>>
    ELSE LET p == CHOOSE q \in 1..Len(s) :
                     s[q] = Comma /\ \A q2 \in 1..(q - 1) : s[q2] # Comma
         IN  <<SubSeq(s, 1, p - 1)>> \o Split(SubSeq(s, p + 1, Len(s)))

RECURSIVE Join(_)
\* ','.join(tokens), the way a request names several sections in one field
Join(toks) ==
    IF Len(toks) = 1 THEN toks[1]
    ELSE toks[1] \o <<Comma>> \o Join(Tail(toks))

RECURSIVE ToStr(_)
\* str(n) for n >= 0
ToStr(n) ==
    IF n < 10 THEN <<DigitChars[n + 1]>>
    ELSE ToStr(n \div 10) \o <<DigitChars[(n % 10) + 1]>>

DigitOf(c) == CHOOSE d \in 0..9 : DigitChars[d + 1] = c

RECURSIVE ParseInt(_)
\* int(s) for a decimal numeral s
ParseInt(s) ==
    IF Len(s) = 1 THEN DigitOf(s[1])
    ELSE 10 * ParseInt(SubSeq(s, 1, Len(s) - 1)) + DigitOf(s[Len(s)])

Max2(a, b) == IF a >= b THEN a ELSE b

RECURSIVE SeqMax(_)
\* max(resolutions)
SeqMax(q) ==
    IF Len(q) = 1 THEN q[1]
    ELSE Max2(q[1], SeqMax(Tail(q)))

(***************************************************************************)
(* Request and storage.                                                    *)
(***************************************************************************)
\* names of the sections a request may list
SectionNames == {<<"a">>, <<"b">>}
\* resolutions a request may list
ResValues == {5, 7, 10}

\* the non-empty lists over S of at most n entries
ListsUpTo(S, n) == UNION {[1..k -> S] : k \in 1..n}

\* tile_size and the pixel positions of a tile-sized grid. Every array statement
\* of the handlers works element by element, so the model follows the tile at
\* one pixel position: a tile is one pixel wide and high.
TileSize == <<1, 1>>
PixelsOf(shape) == (1..shape[1]) \X (1..shape[2])

\* a pixel of a fetched grid: an unmasked raw value, or a masked pixel, which
\* carries the nodata code of the source
UnmaskedPixels == {[data |-> v, mask |-> FALSE] : v \in 0..MaxRaw}
MaskedPixel == [data |-> UInt16Max, mask |-> TRUE]
SourcePixels == UnmaskedPixels \cup {MaskedPixel}

\* the MaskedGrids xyz.get_tile_data can return: always of shape tile_size
TileGrids == {[shape |-> TileSize, px |-> f] : f \in [PixelsOf(TileSize) -> SourcePixels]}
NoGrid == [shape |-> <<0, 0>>, px |-> <<>>]

\* what the storage holds under one concrete key-set: no dataset, a dataset
\* whose bounds miss the requested tile, or one covering it with a grid
NoDataset == [exists |-> FALSE, bounds |-> "none", grid |-> NoGrid]
DatasetOptions ==
    {NoDataset, [exists |-> TRUE, bounds |-> "outside", grid |-> NoGrid]}
        \cup {[exists |-> TRUE, bounds |-> "covers", grid |-> g] : g \in TileGrids}

\* xyz.tile_exists(metadata['bounds'], tile_x, tile_y, tile_z)
TileExists(bounds) == bounds = "covers"

VARIABLES
    handler,        \* "multi_cogs" | "highresnowc" | "quantize"
    pc,             \* position of the request
    keys,           \* the caller's keys list (fields section_x, section_y, resolution)
    sections_x,     \* keys[section_x_idx].split(',')
    sections_y,     \* keys[section_y_idx].split(',')
    resolutions,    \* [int(r) for r in keys[resolution_idx].split(',')]
    n,              \* iteration of the enumeration loop nest, flattened
    m,              \* iteration of the merge loop nest, flattened
    storage,        \* contents of the storage, per key-set looked up so far
    futures,        \* futures[(x, y)]: the asynchronous fetches issued
    tile_data,      \* the composite canvas
    session,        \* driver.connect(): "closed" | "open"
    result,         \* what the request returned, or the error it raised
    lookups,        \* history: key-sets handed to driver.get_metadata
    fetches,        \* history: key-sets handed to xyz.get_tile_data
    merged,         \* history: the grids merged into the canvas, in merge order
    overtaken,      \* history: a fetch completed while one issued earlier was pending
    replaced,       \* fetches whose entry futures[(x, y)] a later fetch has taken
    request,        \* the keys list as the caller passed it to the first call
    first           \* what the first call returned, once the caller calls again

vars == <<handler, pc, keys, sections_x, sections_y, resolutions, n, m, storage,
          futures, tile_data, session, result, lookups, fetches, merged, overtaken,
          replaced, request, first>>

NoResult == [kind |-> "none"]
EmptyMap == [k \in {} |-> NoDataset]

\* mutant of FullyMasked: the canvas created without mask=True
CreatedUnmasked(shape) ==
    [shape |-> shape, px |-> [p \in PixelsOf(shape) |-> [data |-> 0, mask |-> FALSE]]]

\* np.ma.array(np.zeros(tile_size), mask=True)
FullyMasked(shape) ==
    [shape |-> shape, px |-> [p \in PixelsOf(shape) |-> [data |-> 0, mask |-> TRUE]]]

\* np.zeros((tile_width, tile_height))
Zeros(shape) ==
    [shape |-> shape, px |-> [p \in PixelsOf(shape) |-> [data |-> 0, mask |-> FALSE]]]

\* a request for the sections xs, ys (and resolutions rs) as the caller passes it
RequestKeys(xs, ys, rs) ==
    [section_x |-> Join(xs), section_y |-> Join(ys),
     resolution |-> IF Len(rs) = 0 THEN <<>> ELSE Join([k \in 1..Len(rs) |-> ToStr(rs[k])])]

Init ==
    /\ handler \in {"multi_cogs", "highresnowc"}
    /\ \E xs \in ListsUpTo(SectionNames, MaxSections),
          ys \in ListsUpTo(SectionNames, MaxSections) :
          IF handler = "multi_cogs"
          THEN /\ Len(xs) * Len(ys) <= MaxKeySets
               /\ keys = RequestKeys(xs, ys, <<>>)
          ELSE \E rs \in ListsUpTo(ResValues, MaxResLen) :
                  /\ Len(xs) * Len(ys) * Len(rs) <= MaxKeySets
                  /\ keys = RequestKeys(xs, ys, rs)
    /\ pc = "start"
    /\ sections_x = <<>>
    /\ sections_y = <<>>
    /\ resolutions = <<>>
    /\ n = 0
    /\ m = 0
    /\ storage = EmptyMap
    /\ futures = EmptyMap
    /\ tile_data = NoGrid
    /\ session = "closed"
    /\ result = NoResult
    /\ lookups = {}
    /\ fetches = {}
    /\ merged = <<>>
    /\ overtaken = FALSE
    /\ replaced = {}
    /\ request = keys
    /\ first = NoResult

\* driver.get_metadata(k) against fixed storage contents: the dataset stored
\* under k is read the first time k is looked up and stays what it was
Stored(k, ds) == k \in DOMAIN storage => ds = storage[k]
Remember(k, ds) == [q \in DOMAIN storage \cup {k} |-> IF q = k THEN ds ELSE storage[q]]

Raised(err) == [kind |-> "error", error |-> err]

(***************************************************************************)
(* get_tile_data_from_multi_cogs (handlers/kiyomasa.py).                   *)
(***************************************************************************)
\* number of iterations of "for x in sections_x: for y in sections_y:"
NumPairs == Len(sections_x) * Len(sections_y)

\* mutant of PairAt: the loops nested the other way round, section_y outer
PairAtYOuter(k) ==
    <<sections_x[((k - 1) % Len(sections_x)) + 1],
      sections_y[((k - 1) \div Len(sections_x)) + 1]>>

\* the (x, y) of iteration k: section_x outer, section_y inner
PairAt(k) ==
    <<sections_x[((k - 1) \div Len(sections_y)) + 1],
      sections_y[((k - 1) % Len(sections_y)) + 1]>>

\* mutant of MergeOverwrite: a pixel is written only while the canvas has none
MergeFirstWins(canvas, out) ==
    [shape |-> canvas.shape,
     px |-> [p \in PixelsOf(canvas.shape) |->
                IF ~out.px[p].mask /\ canvas.px[p].mask
                THEN [data |-> out.px[p].data, mask |-> out.px[p].mask]
                ELSE canvas.px[p]]]

\* tile_data.data[~out.mask] = out.data[~out.mask]
\* tile_data.mask[~out.mask] = out.mask[~out.mask]
MergeOverwrite(canvas, out) ==
    [shape |-> canvas.shape,
     px |-> [p \in PixelsOf(canvas.shape) |->
                IF ~out.px[p].mask
                THEN [data |-> out.px[p].data, mask |-> out.px[p].mask]
                ELSE canvas.px[p]]]

\* lines 43-55: canvas created fully masked, key fields split, session opened
Begin ==
    /\ handler = "multi_cogs"
    /\ pc = "start"
    /\ tile_data' = FullyMasked(TileSize)
    /\ sections_x' = Split(keys.section_x)
    /\ sections_y' = Split(keys.section_y)
    /\ session' = "open"
    /\ futures' = EmptyMap
    /\ n' = 1
    /\ pc' = "enumerate"
    /\ UNCHANGED <<handler, replaced, request, first, overtaken, keys, resolutions, m, storage, result, lookups, fetches, merged>>

\* lines 57, 59: keys[section_x_idx] = x; keys[section_y_idx] = y
IterKeys == [keys EXCEPT !.section_x = PairAt(n)[1], !.section_y = PairAt(n)[2]]

\* what every iteration of the enumeration loop does first (lines 57-61): the
\* caller's keys list is overwritten in place and handed to get_metadata
Enumerate(ds) ==
    /\ handler = "multi_cogs"
    /\ pc = "enumerate"
    /\ n <= NumPairs
    /\ Stored(IterKeys, ds)
    /\ keys' = IterKeys
    /\ storage' = Remember(IterKeys, ds)
    /\ lookups' = lookups \cup {IterKeys}
    /\ n' = n + 1
    /\ pc' = IF n = NumPairs THEN "merge" ELSE "enumerate"
    /\ m' = 1
    /\ UNCHANGED <<handler, request, first, overtaken, sections_x, sections_y, resolutions,
                   tile_data, session, result, merged>>

\* lines 62-63: except DatasetNotFoundError: continue
IssueNotFound ==
    \E ds \in DatasetOptions :
        /\ ~ds.exists
        /\ Enumerate(ds)
        /\ UNCHANGED <<futures, fetches, replaced>>

\* lines 64-66: the dataset's bounds miss the tile: continue
IssueOutside ==
    \E ds \in DatasetOptions :
        /\ ds.exists /\ ~TileExists(ds.bounds)
        /\ Enumerate(ds)
        /\ UNCHANGED <<futures, fetches, replaced>>

\* lines 67-70: futures[(x, y)] = xyz.get_tile_data(..., asynchronous=True);
\* the fetch is bound to the key-set it is issued for. When (x, y) comes a
\* second time (a section listed twice) the assignment takes the entry of the
\* fetch issued before, which goes on running with nobody to read it
IssueFetch ==
    \E ds \in DatasetOptions :
        /\ ds.exists /\ TileExists(ds.bounds)
        /\ Enumerate(ds)
        /\ futures' = [p \in DOMAIN futures \cup {PairAt(n)} |->
                          IF p = PairAt(n)
                          THEN [key |-> IterKeys, at |-> n, status |-> "pending"]
                          ELSE futures[p]]
        /\ replaced' = IF PairAt(n) \in DOMAIN futures
                       THEN replaced \cup {futures[PairAt(n)]}
                       ELSE replaced
        /\ fetches' = fetches \cup {IterKeys}

\* the executor finishes a fetch: its result is the stored grid
FetchComplete(p) ==
    /\ handler = "multi_cogs"
    /\ pc \in {"enumerate", "merge"}
    /\ p \in DOMAIN futures
    /\ futures[p].status = "pending"
    /\ futures' = [futures EXCEPT ![p].status = "done"]
    /\ overtaken' = (overtaken \/ \E q \in DOMAIN futures :
                        futures[q].at < futures[p].at /\ futures[q].status = "pending")
    /\ UNCHANGED <<handler, replaced, request, first, pc, keys, sections_x, sections_y, resolutions, n, m, storage,
                   tile_data, session, result, lookups, fetches, merged>>

\* the executor finishes a fetch with an I/O error
FetchFail(p) ==
    /\ handler = "multi_cogs"
    /\ pc \in {"enumerate", "merge"}
    /\ p \in DOMAIN futures
    /\ futures[p].status = "pending"
    /\ futures' = [futures EXCEPT ![p].status = "failed"]
    /\ UNCHANGED <<handler, replaced, request, first, overtaken, pc, keys, sections_x, sections_y, resolutions, n, m, storage,
                   tile_data, session, result, lookups, fetches, merged>>

\* the executor finishes a fetch that is no longer in futures
ReplacedComplete(f) ==
    /\ handler = "multi_cogs"
    /\ pc \in {"enumerate", "merge"}
    /\ f \in replaced
    /\ f.status = "pending"
    /\ replaced' = (replaced \ {f}) \cup {[f EXCEPT !.status = "done"]}
    /\ UNCHANGED <<handler, request, first, overtaken, pc, keys, sections_x, sections_y,
                   resolutions, n, m, storage, futures, tile_data, session, result, lookups,
                   fetches, merged>>

\* the executor finishes a fetch that is no longer in futures with an I/O error
ReplacedFail(f) ==
    /\ handler = "multi_cogs"
    /\ pc \in {"enumerate", "merge"}
    /\ f \in replaced
    /\ f.status = "pending"
    /\ replaced' = (replaced \ {f}) \cup {[f EXCEPT !.status = "failed"]}
    /\ UNCHANGED <<handler, request, first, overtaken, pc, keys, sections_x, sections_y,
                   resolutions, n, m, storage, futures, tile_data, session, result, lookups,
                   fetches, merged>>

\* lines 76-78: no future under (x, y): continue
MergeSkip ==
    /\ handler = "multi_cogs"
    /\ pc = "merge"
    /\ m <= NumPairs
    /\ PairAt(m) \notin DOMAIN futures
    /\ m' = m + 1
    /\ UNCHANGED <<handler, replaced, request, first, overtaken, pc, keys, sections_x, sections_y, resolutions, n, storage,
                   futures, tile_data, session, result, lookups, fetches, merged>>

\* lines 79-85: f.result() waits for the fetch, then its unmasked pixels are
\* copied into the canvas
MergeResult ==
    /\ handler = "multi_cogs"
    /\ pc = "merge"
    /\ m <= NumPairs
    /\ PairAt(m) \in DOMAIN futures
    /\ futures[PairAt(m)].status = "done"
    /\ LET out == storage[futures[PairAt(m)].key].grid
       IN  /\ tile_data' = MergeOverwrite(tile_data, out)
           /\ merged' = Append(merged, [at |-> m, key |-> futures[PairAt(m)].key,
                                        fetched |-> out, grid |-> out])
    /\ m' = m + 1
    /\ UNCHANGED <<handler, replaced, request, first, overtaken, pc, keys, sections_x, sections_y, resolutions, n, storage,
                   futures, session, result, lookups, fetches>>

\* line 79: f.result() re-raises the error of a failed fetch; the with block
\* is left and the session released
MergeRaise ==
    /\ handler = "multi_cogs"
    /\ pc = "merge"
    /\ m <= NumPairs
    /\ PairAt(m) \in DOMAIN futures
    /\ futures[PairAt(m)].status = "failed"
    /\ pc' = "raised"
    /\ session' = "closed"
    /\ result' = Raised("FetchFailure")
    /\ UNCHANGED <<handler, replaced, request, first, overtaken, keys, sections_x, sections_y, resolutions, n, m, storage,
                   futures, tile_data, lookups, fetches, merged>>

\* line 88: the with block is left and the canvas returned, whatever was merged
Return ==
    /\ handler = "multi_cogs"
    /\ pc = "merge"
    /\ m > NumPairs
    /\ pc' = "returned"
    /\ session' = "closed"
    /\ result' = [kind |-> "canvas", canvas |-> tile_data]
    /\ UNCHANGED <<handler, replaced, request, first, overtaken, keys, sections_x, sections_y, resolutions, n, m, storage,
                   futures, tile_data, lookups, fetches, merged>>

NextMultiCogs ==
    \/ Begin
    \/ IssueNotFound
    \/ IssueOutside
    \/ IssueFetch
    \/ \E p \in DOMAIN futures : FetchComplete(p)
    \/ \E p \in DOMAIN futures : FetchFail(p)
    \/ \E f \in replaced : ReplacedComplete(f)
    \/ \E f \in replaced : ReplacedFail(f)
    \/ MergeSkip
    \/ MergeResult
    \/ MergeRaise
    \/ Return

(***************************************************************************)
(* highresnowc (handlers/highresnowc.py).                                  *)
(***************************************************************************)
\* astype(np.uint8) / astype(np.uint16) of an integral value
ToUInt8(v) == v % 256
ToUInt16(v) == v % 65536

\* lines 78-85: the precipitation table of highresnowc, for one canvas pixel.
\* eqOnMasked is what "tile_data == nodata_value" holds at a masked element,
\* which numpy.ma defines and the handler does not.
NowcEncode(px, eqOnMasked) ==
    LET isNodata == IF px.mask THEN eqOnMasked ELSE px.data = UInt16Max
        v0 == IF isNodata THEN 0 ELSE px.data
        v1 == IF 10 <= v0 /\ v0 < 500 THEN ((v0 - 10) \div 10) + 10 ELSE v0
        v2 == IF 500 <= v1 /\ v1 <= 19900 THEN ((v1 - 500) \div 100) + 59 ELSE v1
        v3 == IF 19901 <= v2 THEN 253 ELSE v2
    IN  ToUInt8(v3)

\* line 48
max_resolution == SeqMax(resolutions)

\* number of iterations of the three nested loops (lines 50-54)
NumTriples == Len(sections_x) * Len(sections_y) * Len(resolutions)

\* the (x, y, res) of iteration k: section_x outer, section_y, resolution inner
TripleAt(k) ==
    <<sections_x[((k - 1) \div (Len(sections_y) * Len(resolutions))) + 1],
      sections_y[(((k - 1) \div Len(resolutions)) % Len(sections_y)) + 1],
      resolutions[((k - 1) % Len(resolutions)) + 1]>>

\* mutant of Supported: the operands of % the other way round
SupportedSwapped(res, maxres) == res = maxres \/ res % maxres = 0

\* line 55, negated: the resolutions that are looked up
Supported(res, maxres) == res = maxres \/ maxres % res = 0

\* tdata.repeat(scale, axis=0).repeat(scale, axis=1): a new array, each pixel
\* repeated scale times along both axes
Repeat(g, scale) ==
    [shape |-> <<g.shape[1] * scale, g.shape[2] * scale>>,
     px |-> [p \in PixelsOf(<<g.shape[1] * scale, g.shape[2] * scale>>) |->
                g.px[<<((p[1] - 1) \div scale) + 1, ((p[2] - 1) \div scale) + 1>>]]]

\* lines 67-69: the array repeat() returns is not assigned, so tdata is after
\* the statement what the fetch returned
Reconcile(tdata, res, maxres) == tdata

\* line 70: np.maximum(tile_data, tdata) takes the larger stored value of every
\* element, masked or not, and masks what either operand masks
MergeMaximum(canvas, tdata) ==
    [shape |-> canvas.shape,
     px |-> [p \in PixelsOf(canvas.shape) |->
                [data |-> Max2(canvas.px[p].data, tdata.px[p].data),
                 mask |-> canvas.px[p].mask \/ tdata.px[p].mask]]]

\* lines 34-49: canvas of zeros, key fields split and parsed, session opened
NowcBegin ==
    /\ handler = "highresnowc"
    /\ pc = "start"
    /\ tile_data' = Zeros(TileSize)
    /\ sections_x' = Split(keys.section_x)
    /\ sections_y' = Split(keys.section_y)
    /\ resolutions' = [k \in 1..Len(Split(keys.resolution)) |->
                          ParseInt(Split(keys.resolution)[k])]
    /\ session' = "open"
    /\ n' = 1
    /\ pc' = "enumerate"
    /\ UNCHANGED <<handler, replaced, request, first, overtaken, keys, m, storage, futures, result, lookups, fetches, merged>>

NowcIterating ==
    /\ handler = "highresnowc"
    /\ pc = "enumerate"
    /\ n <= NumTriples

\* lines 51, 53, 58: the keys of an iteration whose resolution is supported
NowcKeys ==
    [section_x |-> TripleAt(n)[1], section_y |-> TripleAt(n)[2],
     resolution |-> ToStr(TripleAt(n)[3])]

\* lines 55-57: max_resolution is no multiple of res: continue; only the
\* section fields of keys were overwritten
NowcUnsupported ==
    /\ NowcIterating
    /\ ~Supported(TripleAt(n)[3], max_resolution)
    /\ keys' = [keys EXCEPT !.section_x = TripleAt(n)[1], !.section_y = TripleAt(n)[2]]
    /\ n' = n + 1
    /\ UNCHANGED <<handler, replaced, request, first, overtaken, pc, sections_x, sections_y, resolutions, m, storage, futures,
                   tile_data, session, result, lookups, fetches, merged>>

\* lines 58-59: driver.get_metadata(keys) for a supported resolution
NowcLookup(ds) ==
    /\ NowcIterating
    /\ Supported(TripleAt(n)[3], max_resolution)
    /\ Stored(NowcKeys, ds)
    /\ keys' = NowcKeys
    /\ storage' = Remember(NowcKeys, ds)
    /\ lookups' = lookups \cup {NowcKeys}
    /\ UNCHANGED <<handler, replaced, request, first, overtaken, sections_x, sections_y, resolutions, m, futures>>

\* an exception leaves the with block (session released) and the handler
NowcRaise(err) ==
    /\ pc' = "raised"
    /\ session' = "closed"
    /\ result' = Raised(err)
    /\ UNCHANGED <<n, tile_data, merged>>

\* line 59: get_metadata raises DatasetNotFoundError and nothing catches it
NowcNotFound ==
    \E ds \in DatasetOptions :
        /\ ~ds.exists
        /\ NowcLookup(ds)
        /\ NowcRaise("DatasetNotFoundError")
        /\ UNCHANGED fetches

\* lines 60-62: the dataset's bounds miss the tile: continue
NowcOutside ==
    \E ds \in DatasetOptions :
        /\ ds.exists /\ ~TileExists(ds.bounds)
        /\ NowcLookup(ds)
        /\ n' = n + 1
        /\ UNCHANGED <<pc, tile_data, session, result, fetches, merged>>

\* lines 63-66: the synchronous xyz.get_tile_data raises an I/O error
NowcFetchFail ==
    \E ds \in DatasetOptions :
        /\ ds.exists /\ TileExists(ds.bounds)
        /\ NowcLookup(ds)
        /\ fetches' = fetches \cup {NowcKeys}
        /\ NowcRaise("FetchFailure")

\* lines 67-69: scale = max_resolution / res is a float, and numpy's repeat
\* rejects a float count with a TypeError
NowcRepeatError ==
    \E ds \in DatasetOptions :
        /\ ds.exists /\ TileExists(ds.bounds)
        /\ NowcLookup(ds)
        /\ TripleAt(n)[3] # max_resolution
        /\ fetches' = fetches \cup {NowcKeys}
        /\ NowcRaise("TypeError")

\* lines 63-70: the grid is fetched, passed through lines 67-69 and merged
NowcMerge ==
    \E ds \in DatasetOptions :
        /\ ds.exists /\ TileExists(ds.bounds)
        /\ NowcLookup(ds)
        /\ fetches' = fetches \cup {NowcKeys}
        /\ LET tdata == Reconcile(ds.grid, TripleAt(n)[3], max_resolution)
           IN  /\ tile_data' = MergeMaximum(tile_data, tdata)
               /\ merged' = Append(merged, [at |-> n, key |-> NowcKeys,
                                            fetched |-> ds.grid, grid |-> tdata])
        /\ n' = n + 1
        /\ UNCHANGED <<pc, session, result>>

\* lines 71-95: the loops are done, the session is released, the canvas is
\* encoded and the image returned, whatever was merged
NowcFinish ==
    /\ handler = "highresnowc"
    /\ pc = "enumerate"
    /\ n > NumTriples
    /\ \E eqOnMasked \in BOOLEAN :
          result' = [kind |-> "image",
                     image |-> [p \in PixelsOf(tile_data.shape) |->
                                   NowcEncode(tile_data.px[p], eqOnMasked)]]
    /\ pc' = "returned"
    /\ session' = "closed"
    /\ UNCHANGED <<handler, replaced, request, first, overtaken, keys, sections_x, sections_y, resolutions, n, m, storage,
                   futures, tile_data, lookups, fetches, merged>>

NextNowc ==
    \/ NowcBegin
    \/ NowcUnsupported
    \/ NowcNotFound
    \/ NowcOutside
    \/ NowcFetchFail
    \/ NowcRepeatError
    \/ NowcMerge
    \/ NowcFinish

\* the caller, holding the canvas get_tile_data_from_multi_cogs returned, calls
\* it once more with the same keys list, the same tile and the storage as it
\* was: the list is the object the first call worked on
CallAgain ==
    /\ handler = "multi_cogs"
    /\ pc = "returned"
    /\ first = NoResult
    /\ first' = result
    /\ pc' = "start"
    /\ sections_x' = <<>>
    /\ sections_y' = <<>>
    /\ resolutions' = <<>>
    /\ n' = 0
    /\ m' = 0
    /\ futures' = EmptyMap
    /\ replaced' = {}
    /\ tile_data' = NoGrid
    /\ result' = NoResult
    /\ lookups' = {}
    /\ fetches' = {}
    /\ merged' = <<>>
    /\ overtaken' = FALSE
    /\ UNCHANGED <<handler, keys, request, storage, session>>

Next == NextMultiCogs \/ NextNowc \/ CallAgain

Spec == Init /\ [][Next]_vars

(***************************************************************************)
(* The data-kind handlers of handlers/kiyomasa.py, for one pixel of the    *)
(* canvas get_tile_data_from_multi_cogs returned: each gives the value of  *)
(* that pixel in the PNG.                                                  *)
(***************************************************************************)
\* mutant of Pri60lv: the thresholds and the top code of the highresnowc table
Pri60lvNowcTable(px) ==
    LET v1 == IF 10 <= px.data /\ px.data < 500
              THEN ((px.data - 10) \div 10) + 10 ELSE px.data
        v2 == IF 500 <= v1 /\ v1 <= 19900 THEN ((v1 - 500) \div 100) + 59 ELSE v1
        v3 == IF 19901 <= v2 THEN 253 ELSE v2
        v4 == IF px.mask THEN UInt8Max ELSE v3
    IN  ToUInt8(v4)

\* lines 110-115
Pri60lv(px) ==
    LET v1 == IF 10 <= px.data /\ px.data < 500
              THEN ((px.data - 10) \div 10) + 10 ELSE px.data
        v2 == IF 500 <= v1 /\ v1 < 20000 THEN ((v1 - 500) \div 100) + 59 ELSE v1
        v3 == IF 20000 <= v2 THEN 254 ELSE v2
        v4 == IF px.mask THEN UInt8Max ELSE v3
    IN  ToUInt8(v4)

\* line 130: the nodata lines 128-129 are commented out
Pphw10(px) == ToUInt8(px.data)

\* line 145: the nodata lines 143-144 are commented out
Plts10(px) == ToUInt8(px.data)

\* line 157
CWM_height(px) == ToUInt8(px.data)

\* line 169
CWM_period(px) == ToUInt8(px.data)

\* lines 181-182
CWM_direction(px) == ToUInt8(IF px.mask THEN UInt8Max ELSE px.data)

GWM_height(px) == CWM_height(px)
GWM_period(px) == CWM_period(px)
GWM_direction(px) == CWM_direction(px)

\* lines 218-219
MSM_temp(px) == ToUInt16(IF px.mask THEN UInt16Max ELSE px.data)
MSM_rh(px) == ToUInt16(IF px.mask THEN UInt16Max ELSE px.data)
HDW_temp(px) == ToUInt16(IF px.mask THEN UInt16Max ELSE px.data)
HDW_rh(px) == ToUInt16(IF px.mask THEN UInt16Max ELSE px.data)
HDW_precip(px) == ToUInt16(IF px.mask THEN UInt16Max ELSE px.data)
HDW_wind_speed(px) == ToUInt16(IF px.mask THEN UInt16Max ELSE px.data)

\* lines 296-297
HDW_wind_dir(px) == ToUInt8(IF px.mask THEN UInt8Max ELSE px.data)

\* lines 306-309: bias by int16 max, clip to [0, uint16 max], nodata last
int16_to_uint16(px) ==
    LET biased == px.data + Int16Max
        clipped == IF biased < 0 THEN 0
                   ELSE IF biased > UInt16Max THEN UInt16Max ELSE biased
    IN  ToUInt16(IF px.mask THEN UInt16Max ELSE clipped)

MSM_u_component_of_wind(px) == int16_to_uint16(px)
MSM_v_component_of_wind(px) == int16_to_uint16(px)

UInt8Kinds == {"Pphw10", "Plts10", "CWM_height", "CWM_period", "CWM_direction",
               "GWM_height", "GWM_period", "GWM_direction", "HDW_wind_dir"}
UInt16Kinds == {"MSM_temp", "MSM_rh", "HDW_temp", "HDW_rh", "HDW_precip",
                "HDW_wind_speed"}
WindKinds == {"MSM_u_component_of_wind", "MSM_v_component_of_wind"}
KiyomasaKinds == {"Pri60lv"} \cup UInt8Kinds \cup UInt16Kinds \cup WindKinds

\* the handler registered under a data-kind name, applied to a canvas pixel
Handle(kind, px) ==
    CASE kind = "Pri60lv" -> Pri60lv(px)
      [] kind = "Pphw10" -> Pphw10(px)
      [] kind = "Plts10" -> Plts10(px)
      [] kind = "CWM_height" -> CWM_height(px)
      [] kind = "CWM_period" -> CWM_period(px)
      [] kind = "CWM_direction" -> CWM_direction(px)
      [] kind = "GWM_height" -> GWM_height(px)
      [] kind = "GWM_period" -> GWM_period(px)
      [] kind = "GWM_direction" -> GWM_direction(px)
      [] kind = "MSM_temp" -> MSM_temp(px)
      [] kind = "MSM_rh" -> MSM_rh(px)
      [] kind = "HDW_temp" -> HDW_temp(px)
      [] kind = "HDW_rh" -> HDW_rh(px)
      [] kind = "HDW_precip" -> HDW_precip(px)
      [] kind = "HDW_wind_speed" -> HDW_wind_speed(px)
      [] kind = "HDW_wind_dir" -> HDW_wind_dir(px)
      [] kind = "MSM_u_component_of_wind" -> MSM_u_component_of_wind(px)
      [] kind = "MSM_v_component_of_wind" -> MSM_v_component_of_wind(px)

\* the dtype the handler casts to: its nodata sentinel is the dtype's maximum
Sentinel(kind) == IF kind \in UInt8Kinds \cup {"Pri60lv", "highresnowc"}
                  THEN UInt8Max ELSE UInt16Max

\* the integer range of the source rasters of a data kind: uint16 for the
\* precipitation tables, int16 for the wind components, and the output dtype
\* for the kinds whose values are only cast
SourceRange(kind) ==
    IF kind \in UInt8Kinds THEN 0..UInt8Max
    ELSE IF kind \in WindKinds THEN Int16Min..Int16Max
    ELSE 0..UInt16Max

\* the pixels of a canvas get_tile_data_from_multi_cogs can return: a pixel no
\* grid wrote is masked and holds the 0 it was created with, a written pixel
\* is unmasked and holds a source value
CanvasPixels(kind) ==
    {[data |-> 0, mask |-> TRUE]}
        \cup {[data |-> v, mask |-> FALSE] : v \in SourceRange(kind)}

\* the pixels of the canvas of highresnowc: np.maximum of source values, masked
\* where a merged grid was
NowcPixels == {[data |-> v, mask |-> b] : v \in 0..UInt16Max, b \in BOOLEAN}

PixelGrid(px) == [shape |-> TileSize, px |-> [p \in PixelsOf(TileSize) |-> px]]

InitQuant ==
    /\ handler \in KiyomasaKinds \cup {"highresnowc"}
    /\ \E px \in IF handler = "highresnowc" THEN NowcPixels ELSE CanvasPixels(handler) :
          tile_data = PixelGrid(px)
    /\ pc = "canvas"
    /\ keys = RequestKeys(<<<<"a">>>>, <<<<"a">>>>, <<>>)
    /\ sections_x = <<>>
    /\ sections_y = <<>>
    /\ resolutions = <<>>
    /\ n = 0
    /\ m = 0
    /\ storage = EmptyMap
    /\ futures = EmptyMap
    /\ session = "closed"
    /\ result = NoResult
    /\ lookups = {}
    /\ fetches = {}
    /\ merged = <<>>
    /\ overtaken = FALSE
    /\ replaced = {}
    /\ request = keys
    /\ first = NoResult

\* a kiyomasa handler turns the canvas into the image it returns
Render ==
    /\ pc = "canvas"
    /\ handler \in KiyomasaKinds
    /\ result' = [kind |-> "image",
                  image |-> [p \in PixelsOf(tile_data.shape) |->
                                Handle(handler, tile_data.px[p])]]
    /\ pc' = "returned"
    /\ UNCHANGED <<handler, replaced, request, first, overtaken, keys, sections_x, sections_y, resolutions, n, m, storage,
                   futures, tile_data, session, lookups, fetches, merged>>

\* lines 78-85 of highresnowc.py
NowcRender ==
    /\ pc = "canvas"
    /\ handler = "highresnowc"
    /\ \E eqOnMasked \in BOOLEAN :
          result' = [kind |-> "image",
                     image |-> [p \in PixelsOf(tile_data.shape) |->
                                   NowcEncode(tile_data.px[p], eqOnMasked)]]
    /\ pc' = "returned"
    /\ UNCHANGED <<handler, replaced, request, first, overtaken, keys, sections_x, sections_y, resolutions, n, m, storage,
                   futures, tile_data, session, lookups, fetches, merged>>

NextQuant == Render \/ NowcRender

SpecQuant == InitQuant /\ [][NextQuant]_vars

(***************************************************************************)
(* Properties.                                                             *)
(***************************************************************************)
\* the dataset stored under k covers the requested tile
Covers(k) == storage[k].exists /\ TileExists(storage[k].bounds)

\* no key-set looked up so far both exists and has bounds intersecting the tile
NoKeySetCovers == \A k \in DOMAIN storage : ~Covers(k)

\* C1: a request in which no enumerated key-set both exists and intersects the
\* tile fails with TileOutOfBounds; it never ends with a canvas or an image
\* as a successful result.
C1_NoCoverageRaisesOutOfBounds ==
    (handler \in {"multi_cogs", "highresnowc"} /\ pc = "returned" /\ NoKeySetCovers)
        => result = Raised("TileOutOfBoundsError")

\* the key-set of iteration k of get_tile_data_from_multi_cogs
PairKeys(k) == [keys EXCEPT !.section_x = PairAt(k)[1], !.section_y = PairAt(k)[2]]

\* the canvas the request must return for the storage contents, whatever the
\* fetches did: the grids of the covering key-sets merged one by one, for
\* every x of section_x in list order, for every y of section_y in list order
RECURSIVE ExpectedOverY(_, _, _)
ExpectedOverY(canvas, x, ys) ==
    IF ys = <<>> THEN canvas
    ELSE LET k == [keys EXCEPT !.section_x = x, !.section_y = Head(ys)]
         IN  ExpectedOverY(IF Covers(k) THEN MergeOverwrite(canvas, storage[k].grid)
                           ELSE canvas,
                           x, Tail(ys))

RECURSIVE ExpectedOverX(_, _, _)
ExpectedOverX(canvas, xs, ys) ==
    IF xs = <<>> THEN canvas
    ELSE ExpectedOverX(ExpectedOverY(canvas, Head(xs), ys), Tail(xs), ys)

ExpectedCanvas ==
    ExpectedOverX([shape |-> TileSize,
                   px |-> [p \in PixelsOf(TileSize) |-> [data |-> 0, mask |-> TRUE]]],
                  sections_x, sections_y)

\* C2: the canvas get_tile_data_from_multi_cogs returns is fixed by the request
\* and the storage contents alone: the results are merged in key enumeration
\* order (section_x outer, section_y inner), whatever order the fetches
\* completed in, and a result is merged only once its own fetch is done.
C2_MergeInEnumerationOrder ==
    handler = "multi_cogs" =>
        /\ \A i \in 1..Len(merged) :
              /\ futures[PairAt(merged[i].at)].status = "done"
              /\ merged[i].grid = storage[merged[i].key].grid
              /\ \A j \in 1..Len(merged) : i < j => merged[i].at < merged[j].at
        /\ pc = "returned" => result = [kind |-> "canvas", canvas |-> ExpectedCanvas]

\* two fetches whose grids disagree on a pixel were merged, and the one issued
\* later had completed while the earlier one was still pending
C2_Witness ==
    /\ handler = "multi_cogs"
    /\ pc = "returned"
    /\ overtaken
    /\ \E i, j \in 1..Len(merged) :
          /\ i < j
          /\ \E p \in PixelsOf(TileSize) :
                /\ ~merged[i].grid.px[p].mask
                /\ ~merged[j].grid.px[p].mask
                /\ merged[i].grid.px[p].data # merged[j].grid.px[p].data

\* iteration k of the enumeration fetched a section
FetchedAt(k) == Covers(PairKeys(k))
GridAt(k) == storage[PairKeys(k)].grid

\* C3: overwrite merge: at every pixel the returned canvas holds the value of
\* the last enumerated section that is unmasked there. So of two fetched
\* sections A before B, B's value stands where both are unmasked, and where
\* only one of them is unmasked that one's value stands.
C3_LastUnmaskedSectionWins ==
    (handler = "multi_cogs" /\ pc = "returned") =>
        \A p \in PixelsOf(TileSize) :
            \A b \in 1..NumPairs :
                (/\ FetchedAt(b)
                 /\ ~GridAt(b).px[p].mask
                 /\ \A c \in (b + 1)..NumPairs : FetchedAt(c) => GridAt(c).px[p].mask)
                    => result.canvas.px[p] = [data |-> GridAt(b).px[p].data, mask |-> FALSE]

\* sections A before B were fetched and hold different values at a pixel both
\* leave unmasked
C3_Witness ==
    /\ handler = "multi_cogs"
    /\ pc = "returned"
    /\ \E a, b \in 1..NumPairs :
          /\ a < b
          /\ FetchedAt(a) /\ FetchedAt(b)
          /\ \E p \in PixelsOf(TileSize) :
                /\ ~GridAt(a).px[p].mask /\ ~GridAt(b).px[p].mask
                /\ GridAt(a).px[p].data # GridAt(b).px[p].data
                /\ result.canvas.px[p].data = GridAt(b).px[p].data

\* C4: the canvas starts fully masked, and at any point of the merge a canvas
\* pixel is unmasked if and only if a grid merged so far was unmasked there;
\* a pixel no grid touched is still masked (and still 0) on return.
C4_MaskIsUnionOfCoverage ==
    (handler = "multi_cogs" /\ pc \in {"enumerate", "merge", "returned"}) =>
        \A p \in PixelsOf(TileSize) :
            /\ ~tile_data.px[p].mask
                  <=> \E i \in 1..Len(merged) : ~merged[i].grid.px[p].mask
            /\ tile_data.px[p].mask => tile_data.px[p].data = 0
            /\ pc = "returned" => result.canvas = tile_data

\* a grid unmasked at a pixel was merged, then one masked there, and the pixel
\* is unmasked in the returned canvas
C4_Witness ==
    /\ handler = "multi_cogs"
    /\ pc = "returned"
    /\ \E i, j \in 1..Len(merged) :
          /\ i < j
          /\ \E p \in PixelsOf(TileSize) :
                /\ ~merged[i].grid.px[p].mask
                /\ merged[j].grid.px[p].mask
                /\ ~result.canvas.px[p].mask

SetMax(S) == CHOOSE v \in S : \A w \in S : w <= v

\* C5: maximum merge in highresnowc: a canvas pixel that some merged grid left
\* unmasked holds the maximum of the values of the grids unmasked there, and
\* is not masked: a grid's masked pixel neither masks nor changes it.
C5_MaximumOfUnmaskedValues ==
    (handler = "highresnowc" /\ pc \in {"enumerate", "returned"}) =>
        \A p \in PixelsOf(TileSize) :
            LET unmaskedAt == {i \in 1..Len(merged) : ~merged[i].grid.px[p].mask}
            IN  unmaskedAt # {} =>
                    /\ ~tile_data.px[p].mask
                    /\ tile_data.px[p].data =
                           SetMax({merged[i].grid.px[p].data : i \in unmaskedAt})

\* the precipitation table as C6 states it for both handlers
ClaimedPrecipitation(px) ==
    IF px.mask THEN 255
    ELSE IF px.data < 10 THEN px.data
    ELSE IF px.data < 500 THEN ((px.data - 10) \div 10) + 10
    ELSE IF px.data <= 19900 THEN ((px.data - 500) \div 100) + 59
    ELSE 253

LowerBands(raw) == IF raw < 10 THEN raw ELSE ((raw - 10) \div 10) + 10

C7_SentinelIffMasked ==
    (pc = "returned" /\ handler \in KiyomasaKinds) =>
        \A p \in PixelsOf(TileSize) :
            result.image[p] = Sentinel(handler) <=> tile_data.px[p].mask

\* the key-set of iteration k of highresnowc, were its resolution looked up
TripleKeys(k) ==
    [section_x |-> TripleAt(k)[1], section_y |-> TripleAt(k)[2],
     resolution |-> ToStr(TripleAt(k)[3])]

\* C8: with maxRes the maximum of the requested resolutions, no metadata lookup
\* and no fetch is ever issued for a resolution r unless r = maxRes or
\* maxRes % r = 0, and every iteration the loops have passed whose resolution
\* satisfies that has had its metadata looked up, and its tile fetched exactly
\* if the dataset covers the tile.
C8_ResolutionFilter ==
    (handler = "highresnowc" /\ pc # "start") =>
        LET maxRes == SeqMax(resolutions)
            Kept(r) == r = maxRes \/ maxRes % r = 0
        IN  /\ \A k \in lookups \cup fetches : Kept(ParseInt(k.resolution))
            /\ \A i \in 1..(n - 1) :
                  Kept(TripleAt(i)[3]) =>
                      /\ TripleKeys(i) \in lookups
                      /\ TripleKeys(i) \in fetches <=> Covers(TripleKeys(i))

\* of the requested resolutions 10, 7, 5 the loops have passed 7 and have
\* fetched tiles at exactly 10 and 5
C8_Witness ==
    /\ handler = "highresnowc"
    /\ resolutions = <<10, 7, 5>>
    /\ n >= 3
    /\ {ParseInt(k.resolution) : k \in fetches} = {5, 10}
    /\ {ParseInt(k.resolution) : k \in lookups} = {5, 10}

\* C9: a grid fetched at a resolution below max_resolution goes into the merge
\* enlarged by the factor max_resolution / res along both axes, a grid at
\* max_resolution goes in as fetched, and no fetched grid is lost to an error
\* of the enlargement.
C9_CoarserGridsEnlarged ==
    (handler = "highresnowc" /\ pc # "start") =>
        /\ \A i \in 1..Len(merged) :
              LET res == ParseInt(merged[i].key.resolution)
              IN  merged[i].grid =
                      IF res < max_resolution
                      THEN Repeat(merged[i].fetched, max_resolution \div res)
                      ELSE merged[i].fetched
        /\ result # Raised("TypeError")

\* C10: a key-set whose metadata lookup finds no dataset is skipped by both
\* compositors: no fetch is issued for it, the request does not fail with the
\* lookup's error, and a request that returns has looked up every key-set it
\* enumerates.
C10_MissingDatasetIsSkipped ==
    /\ \A k \in DOMAIN storage : ~storage[k].exists => k \notin fetches
    /\ result # Raised("DatasetNotFoundError")
    /\ (handler = "multi_cogs" /\ pc = "returned") =>
          \A i \in 1..NumPairs : PairKeys(i) \in lookups
    /\ (handler = "highresnowc" /\ pc = "returned") =>
          \A i \in 1..NumTriples :
              Supported(TripleAt(i)[3], max_resolution) => TripleKeys(i) \in lookups

\* every fetch get_tile_data_from_multi_cogs has issued in this call
IssuedFetches == {futures[p] : p \in DOMAIN futures} \cup replaced

\* C11: when the fetch of a key-set whose metadata indicated coverage has
\* failed, get_tile_data_from_multi_cogs raises the error: it never returns a
\* canvas while a fetch it issued has failed.
C11_FetchFailureIsRaised ==
    /\ (handler = "multi_cogs" /\ pc = "returned") =>
          \A f \in IssuedFetches : f.status # "failed"
    /\ (handler = "multi_cogs" /\ pc = "raised") =>
          /\ result = Raised("FetchFailure")
          /\ \E f \in IssuedFetches : f.status = "failed"

\* C12: composing twice in succession with the same keys argument, the same
\* tile and unchanged storage gives the same output both times; a call that
\* has returned has left the caller's keys list as it was passed.
C12_SecondCallSameOutput ==
    (handler \in {"multi_cogs", "highresnowc"} /\ pc = "returned") =>
        /\ keys = request
        /\ first # NoResult => result = first

\* C13: in get_tile_data_from_multi_cogs the failure of one fetch does not
\* abandon the others: when the operation has exited with the error, the
\* session is released and no fetch it issued is still in flight.
C13_NoFetchInFlightAtError ==
    (handler = "multi_cogs" /\ pc = "raised") =>
        /\ session = "closed"
        /\ \A f \in IssuedFetches : f.status # "pending"

=============================================================================
